---- MODULE Spec2Model ----
(***************************************************************************)
(* A model of the bitmap crate (src/src/lib.rs): the word-packed Bitmap,   *)
(* the run-length encoded SparseBitmap, the Run helpers and the operators  *)
(* AND, OR, XOR, NOT, together with string parsing and rendering.          *)
(*                                                                         *)
(* Conventions.                                                            *)
(*   - A Vec is a sequence; the code's 0-based index i is element i + 1.   *)
(*   - Option<T> is a sequence of length at most one: None is <<>> and     *)
(*     Some(x) is <<x>>.                                                   *)
(*   - A &str is a sequence of chars, each a string naming the char; the   *)
(*     leftmost char of the Rust string is element 1. A char occupies      *)
(*     Utf8Len bytes, and str::len() counts bytes, not chars.              *)
(*   - A panic is recorded in a "fault" field or variable; "none" means    *)
(*     the call returned.                                                  *)
(*   - A usize is held as the integer nearest zero that is congruent to it *)
(*     modulo 2^64, so a negative n stands for the wrapped value 2^64 + n. *)
(*     Only a run length can be negative, and only in a build without      *)
(*     overflow checks; starts and ends are always the values themselves.  *)
(*   - Arithmetic overflow depends on the build: with overflow checks (the *)
(*     debug profile) it panics, without them (the release profile) it     *)
(*     wraps. Operators that can overflow take the flag overflow_checks.   *)
(***************************************************************************)
EXTENDS Integers, Sequences, FiniteSets, TLC

VARIABLES
    size,      \* SparseBitmap.size of the bitmap under set calls
    runs,      \* SparseBitmap.runs of the bitmap under set calls
    fault,     \* "none", or the panic that ended the last call
    call,      \* the last set call: [position, value], or <<>> before any call
    before,    \* runs as they were when the last call was entered
    steps,     \* number of set calls made so far
    a,         \* left operand / input string of the operator scenarios
    b,         \* right operand string of the operator scenarios
    op,        \* which operation produced out ("init" before any)
    out,       \* the result of the operation
    dx,         \* a dense Bitmap: [chunks, size]
    dy,         \* a second dense Bitmap, the right operand of the dense operators
    res,       \* the Bitmap the last dense operator returned (<<>> before any)
    dop,       \* the last dense operation ("init" before any)
    dfault,    \* "none", or the panic that ended the last dense operation
    shadow,    \* reference bit array of dx: the positions whose bit is 1
    clean,     \* which of dx, dy, res were built by new, from, set, AND and
               \* equal-size OR/XOR alone
    dsteps     \* number of dense operations made so far

vars == <<size, runs, fault, call, before, steps, a, b, op, out,
          dx, dy, res, dop, dfault, shadow, clean, dsteps>>

setVars == <<size, runs, fault, call, before, steps>>
denseVars == <<dx, dy, res, dop, dfault, shadow, clean, dsteps>>

\* ------------------------------------------------------------------ bounds

\* Longest string / largest size of the set-call scenarios.
MaxSize == 5
\* Longest sequence of set calls on one bitmap.
MaxSets == 4
\* Longest operand string of the operator scenarios.
MaxLen == 5
\* Longest string handed to the parsers (alphabet with a malformed character).
MaxStr == 4
\* Dense sizes and positions reach this far past the first word boundary.
MaxEdge == 1
\* Longest string a dense Bitmap of the set-call scenarios is parsed from.
MaxDenseLen == 3
\* Longest sequence of set calls on one dense Bitmap.
MaxDenseSets == 4
\* Longest sequence of dense operations (set, AND, OR, XOR, NOT).
MaxDenseOps == 3

\* ----------------------------------------------------------------- Option

None == <<>>
Some(x) == <<x>>
IsSome(o) == Len(o) = 1
Unwrap(o) == o[1]

Min(x, y) == IF x <= y THEN x ELSE y
Max(x, y) == IF x >= y THEN x ELSE y

\* Vec indexing with the code's 0-based index.
At(vec, i) == vec[i + 1]

\* Vec::remove(index): the vector without element index.
VecRemove(vec, i) == SubSeq(vec, 1, i) \o SubSeq(vec, i + 2, Len(vec))

\* Iterator::position(pred): index of the first element satisfying the
\* predicate, given as the sequence of its truth values on the elements.
IterPosition(holds) ==
    LET hits == {i \in 0..(Len(holds) - 1) : At(holds, i)}
    IN  IF hits = {} THEN None
        ELSE Some(CHOOSE i \in hits : \A j \in hits : i <= j)

\* -------------------------------------------------------------------- Run

Run_new(start, length) == [start |-> start, length |-> length]

Run_end(run) == run.start + run.length

Run_contains(run, index) == index >= run.start /\ index <= Run_end(run)

Run_matches(self, run) ==
    Run_contains(self, run.start) \/ Run_contains(run, self.start)

\* Run_intersect taking the end of self instead of the smaller of the two ends.
Run_intersect_self_end(self, run) ==
    IF Run_matches(self, run)
    THEN LET start == Max(self.start, run.start)
             end == Run_end(self)
         IN  Some(Run_new(start, end - start))
    ELSE None

Run_intersect(self, run) ==
    IF Run_matches(self, run)
    THEN LET start == Max(self.start, run.start)
             end == Min(Run_end(self), Run_end(run))
         IN  Some(Run_new(start, end - start))
    ELSE None

\* Run_union taking the end of run instead of the larger of the two ends.
Run_union_run_end(self, run) ==
    IF Run_matches(self, run)
    THEN LET start == Min(self.start, run.start)
             end == Run_end(run)
         IN  Some(Run_new(start, end - start))
    ELSE None

Run_union(self, run) ==
    IF Run_matches(self, run)
    THEN LET start == Min(self.start, run.start)
             end == Max(Run_end(self), Run_end(run))
         IN  Some(Run_new(start, end - start))
    ELSE None

\* ----------------------------------------------------------- SparseBitmap

SparseBitmap_new(sz) == [runs |-> <<>>, size |-> sz]

SparseBitmap_get(self, position) ==
    IF position > self.size THEN FALSE
    ELSE \E i \in 1..Len(self.runs) :
            /\ self.runs[i].start <= position
            /\ Run_end(self.runs[i]) > position

\* append works on the run vector alone; size is untouched.
SparseBitmap_append(rs, run) ==
    IF Len(rs) > 0 /\ IsSome(Run_union(rs[Len(rs)], run))
    THEN [rs EXCEPT ![Len(rs)] = Unwrap(Run_union(rs[Len(rs)], run))]
    ELSE Append(rs, run)

\* The result of a step on the run vector: the vector and the panic, if any
\* ("unwrap_none" is runs.get_mut(index).unwrap() on an index past the end).
Ok(rs) == [runs |-> rs, fault |-> "none"]
Panic(rs, what) == [runs |-> rs, fault |-> what]

SparseBitmap_set_one(rs, position, index) ==
    LET current == At(rs, index)
    IN  IF position = current.start
        THEN LET ends_before == [i \in 1..Len(rs) |-> Run_end(rs[i]) = current.start - 1]
                 found == IF current.start = 0 THEN None
                          ELSE IterPosition(ends_before)
                 start == IF current.start = 0 THEN current.start
                          ELSE IF IsSome(found) THEN At(rs, Unwrap(found)).start
                          ELSE current.start - 1
                 rs1 == IF IsSome(found) THEN VecRemove(rs, Unwrap(found)) ELSE rs
             IN  IF index < Len(rs1)
                 THEN Ok([rs1 EXCEPT ![index + 1].start = start])
                 ELSE Panic(rs1, "unwrap_none")
        ELSE IF position = Run_end(current)
        THEN LET starts_after == [i \in 1..Len(rs) |-> rs[i].start = Run_end(current) + 1]
                 found == IterPosition(starts_after)
                 length == IF IsSome(found) THEN At(rs, Unwrap(found)).length + 1
                           ELSE 1
                 rs1 == IF IsSome(found) THEN VecRemove(rs, Unwrap(found)) ELSE rs
             IN  IF index < Len(rs1)
                 THEN Ok([rs1 EXCEPT ![index + 1].length = @ + length])
                 ELSE Panic(rs1, "unwrap_none")
        ELSE Ok(rs)

SparseBitmap_set_zero(rs, position, index) ==
    LET run == At(rs, index)
    IN  IF position = run.start
        THEN Ok([rs EXCEPT ![index + 1].start = run.start + 1])
        \* position differs from run.start here, so the length is not 0 and the
        \* subtraction cannot overflow.
        ELSE IF position = Run_end(run)
        THEN Ok([rs EXCEPT ![index + 1].length = run.length - 1])
        ELSE LET start == position + 1
                 end == Run_end(run)
                 rs1 == [rs EXCEPT ![index + 1].length = position - run.start]
             IN  IF start < end - 1
                 THEN Ok(Append(rs1, Run_new(start, end - start)))
                 ELSE Ok(rs1)

SparseBitmap_set(self, position, value) ==
    IF position >= self.size THEN Panic(self.runs, "out_of_bounds")
    ELSE LET collides == [i \in 1..Len(self.runs) |->
                             /\ self.runs[i].start <= position
                             /\ Run_end(self.runs[i]) >= position]
             found == IterPosition(collides)
         IN  IF IsSome(found)
             THEN IF value
                  THEN SparseBitmap_set_one(self.runs, position, Unwrap(found))
                  ELSE SparseBitmap_set_zero(self.runs, position, Unwrap(found))
             ELSE IF value
                  THEN Ok(SparseBitmap_append(self.runs, Run_new(position, 1)))
                  ELSE Ok(self.runs)

\* ------------------------------------------------- SparseBitmap operators

\* The result of an operator that returned: a SparseBitmap value.
Bitmap_ok(rs, sz) == [runs |-> rs, size |-> sz, fault |-> "none"]

\* The while loop of bitand; i and j are the cursors (next, rhs_next).
RECURSIVE BitAndLoop(_, _, _, _, _)
BitAndLoop(lr, rr, i, j, acc) ==
    IF i < Len(lr) /\ j < Len(rr)
    THEN LET run == At(lr, i)
             rhs_run == At(rr, j)
             inter == Run_intersect(run, rhs_run)
             acc1 == IF IsSome(inter) THEN Append(acc, Unwrap(inter)) ELSE acc
         IN  IF Run_end(run) < Run_end(rhs_run)
             THEN BitAndLoop(lr, rr, i + 1, j, acc1)
             ELSE BitAndLoop(lr, rr, i, j + 1, acc1)
    ELSE acc

SparseBitmap_bitand(self, rhs) ==
    Bitmap_ok(BitAndLoop(self.runs, rhs.runs, 0, 0, <<>>), Min(self.size, rhs.size))

\* The loop of bitor.
RECURSIVE BitOrLoop(_, _, _, _, _)
BitOrLoop(lr, rr, i, j, acc) ==
    IF i < Len(lr) /\ j < Len(rr)
    THEN BitOrLoop(lr, rr, i + 1, j + 1,
             SparseBitmap_append(SparseBitmap_append(acc, At(lr, i)), At(rr, j)))
    ELSE IF i < Len(lr)
    THEN BitOrLoop(lr, rr, i + 1, j, SparseBitmap_append(acc, At(lr, i)))
    ELSE IF j < Len(rr)
    THEN BitOrLoop(lr, rr, i, j + 1, SparseBitmap_append(acc, At(rr, j)))
    ELSE acc

SparseBitmap_bitor(self, rhs) ==
    Bitmap_ok(BitOrLoop(self.runs, rhs.runs, 0, 0, <<>>), Min(self.size, rhs.size))

\* The for loop of not; start is the cursor.
RECURSIVE NotLoop(_, _, _, _)
NotLoop(rs, i, start, acc) ==
    IF i >= Len(rs) THEN acc
    ELSE LET run == At(rs, i)
             acc1 == IF start < run.start
                     THEN Append(acc, Run_new(start, run.start - start))
                     ELSE acc
         IN  NotLoop(rs, i + 1, Run_end(run), acc1)

SparseBitmap_not(self) == Bitmap_ok(NotLoop(self.runs, 0, 0, <<>>), self.size)

\* The start of the span bitxor emits when both bitmaps have a run left.
XorNewStart(start, rhs_start, previous_end) ==
    IF /\ IsSome(previous_end)
       /\ \/ (Unwrap(previous_end) > start /\ Unwrap(previous_end) < rhs_start)
          \/ (Unwrap(previous_end) > rhs_start /\ Unwrap(previous_end) < start)
    THEN Unwrap(previous_end)
    ELSE Min(start, rhs_start)

\* XorNewEnd without the clamp to the larger of the two starts.
XorNewEnd_unclamped(start, end, rhs_start, rhs_end) == Min(end, rhs_end)

\* The end of the span bitxor emits when both bitmaps have a run left.
XorNewEnd(start, end, rhs_start, rhs_end) == Min(Min(Max(start, rhs_start), end), rhs_end)

\* The arm of bitxor's loop for a bitmap that alone has runs left.
XorTail(acc, run, previous_end) ==
    IF IsSome(previous_end)
    THEN IF Unwrap(previous_end) < Run_end(run)
         THEN SparseBitmap_append(acc,
                  Run_new(Unwrap(previous_end), Run_end(run) - Unwrap(previous_end)))
         ELSE acc
    ELSE SparseBitmap_append(acc, run)

\* The loop of bitxor. new_end - new_start is a usize subtraction: when
\* new_end < new_start it panics in a build with overflow checks and wraps to
\* a non-zero length (held as the negative difference) in a build without,
\* where length > 0 then holds and the wrapped run is handed to append.
RECURSIVE BitXorLoop(_, _, _, _, _, _, _)
BitXorLoop(lr, rr, i, j, previous_end, acc, overflow_checks) ==
    IF i < Len(lr) /\ j < Len(rr)
    THEN LET run == At(lr, i)
             rhs_run == At(rr, j)
             start == run.start
             end == Run_end(run)
             rhs_start == rhs_run.start
             rhs_end == Run_end(rhs_run)
             new_start == XorNewStart(start, rhs_start, previous_end)
             new_end == XorNewEnd(start, end, rhs_start, rhs_end)
             length == new_end - new_start
             acc1 == IF length # 0
                     THEN SparseBitmap_append(acc, Run_new(new_start, length))
                     ELSE acc
         IN  IF new_end < new_start /\ overflow_checks
             THEN [runs |-> acc, fault |-> "underflow"]
             ELSE IF end < rhs_end
             THEN BitXorLoop(lr, rr, i + 1, j, Some(end), acc1, overflow_checks)
             ELSE BitXorLoop(lr, rr, i, j + 1, Some(rhs_end), acc1, overflow_checks)
    ELSE IF i < Len(lr)
    THEN BitXorLoop(lr, rr, i + 1, j, Some(Run_end(At(lr, i))),
             XorTail(acc, At(lr, i), previous_end), overflow_checks)
    ELSE IF j < Len(rr)
    THEN BitXorLoop(lr, rr, i, j + 1, Some(Run_end(At(rr, j))),
             XorTail(acc, At(rr, j), previous_end), overflow_checks)
    ELSE [runs |-> acc, fault |-> "none"]

SparseBitmap_bitxor(self, rhs, overflow_checks) ==
    LET r == BitXorLoop(self.runs, rhs.runs, 0, 0, None, <<>>, overflow_checks)
    IN  [runs |-> r.runs, size |-> Min(self.size, rhs.size), fault |-> r.fault]

\* ------------------------------------------------------ string conversion

\* The chars of one byte that the scenarios use; NonAscii names the char
\* U+00E9, which takes two bytes in UTF-8.
Ascii == {"0", "1", "x"}
NonAscii == "U+00E9"

\* char::len_utf8
Utf8Len(char) == IF char \in Ascii THEN 1 ELSE 2

\* str::len(): the length of the string in bytes.
RECURSIVE StrLen(_)
StrLen(value) ==
    IF value = <<>> THEN 0
    ELSE Utf8Len(value[1]) + StrLen(SubSeq(value, 2, Len(value)))

\* value.chars().rev().enumerate(): the character the loop sees at index.
CharAt(value, index) == value[Len(value) - index]

\* The loop walks the chars; the run still open at its end is closed at
\* size, the length of the string in bytes.
RECURSIVE SparseFromLoop(_, _, _, _)
SparseFromLoop(value, index, rs, start_run) ==
    IF index >= Len(value)
    THEN IF IsSome(start_run)
         THEN Append(rs, Run_new(Unwrap(start_run), StrLen(value) - Unwrap(start_run)))
         ELSE rs
    ELSE LET char == CharAt(value, index)
         IN  IF char = "1"
             THEN SparseFromLoop(value, index + 1, rs,
                      IF IsSome(start_run) THEN start_run ELSE Some(index))
             ELSE IF char = "0"
             THEN IF IsSome(start_run)
                  THEN SparseFromLoop(value, index + 1,
                           Append(rs, Run_new(Unwrap(start_run), index - Unwrap(start_run))),
                           None)
                  ELSE SparseFromLoop(value, index + 1, rs, start_run)
             ELSE SparseFromLoop(value, index + 1, rs, start_run)

\* impl From<&str> for SparseBitmap: no character makes it panic.
SparseBitmap_from(value) ==
    [runs |-> SparseFromLoop(value, 0, <<>>, None), size |-> StrLen(value), fault |-> "none"]

Repeat(char, n) == [i \in 1..n |-> char]

\* String::replace_range(start..end, with) on an in-range, ordered range.
ReplaceRange(str, start, end, with) ==
    SubSeq(str, 1, start) \o with \o SubSeq(str, end + 1, Len(str))

\* ToStringRange counting from the left end of the string.
ToStringRange_unmirrored(run, sz) ==
    [start |-> run.start, end |-> run.start + run.length]

\* The range start..end of the string that to_string overwrites for a run.
ToStringRange(run, sz) ==
    [start |-> sz - (run.start + run.length), end |-> sz - run.start]

\* The for loop of to_string. size - (run.start + run.length) is a usize
\* subtraction: a run that ends past size makes it underflow, and a wrapped
\* start makes replace_range panic, so either way the call does not return.
RECURSIVE ToStringLoop(_, _, _, _)
ToStringLoop(rs, i, sz, result) ==
    IF i > Len(rs) THEN [text |-> result, fault |-> "none"]
    ELSE LET run == rs[i]
             ones == Repeat("1", run.length)
             range == ToStringRange(run, sz)
         IN  IF run.start + run.length > sz
             THEN [text |-> <<>>, fault |-> "underflow"]
             ELSE ToStringLoop(rs, i + 1, sz,
                      ReplaceRange(result, range.start, range.end, ones))

SparseBitmap_to_string(self) == ToStringLoop(self.runs, 1, self.size, Repeat("0", self.size))

\* ----------------------------------------------------------- input spaces

RECURSIVE StringsOver(_, _)
StringsOver(alphabet, n) ==
    IF n = 0 THEN {<<>>}
    ELSE LET shorter == StringsOver(alphabet, n - 1)
         IN  shorter \cup {Append(s, c) : s \in {t \in shorter : Len(t) = n - 1}, c \in alphabet}

BitStrings(n) == StringsOver({"0", "1"}, n)

\* Bit p of a bit string (rightmost character is bit 0).
BitOf(s, p) == p < Len(s) /\ CharAt(s, p) = "1"

\* ----------------------------------------------------------------- Bitmap

\* usize::BITS. A word is the set of the offsets of its 1 bits.
WordBits == 64
Word == 0..(WordBits - 1)

chunks_count(sz, chunk_bit_size) == (sz + chunk_bit_size - 1) \div chunk_bit_size

bit_index(position, chunk_bit_size) ==
    [chunk_index |-> position \div chunk_bit_size,
     bit_index_in_chunk |-> position % chunk_bit_size]

Bitmap_chunks_with_size(sz) == [i \in 1..chunks_count(sz, WordBits) |-> {}]

Bitmap_new(sz) == [chunks |-> Bitmap_chunks_with_size(sz), size |-> sz]

\* Defined for positions inside the allocated words only.
Bitmap_get(self, position) ==
    LET at == bit_index(position, WordBits)
    IN  (At(self.chunks, at.chunk_index) \cap {at.bit_index_in_chunk}) # {}

Bitmap_set_one(chunks, chunk, bit) ==
    [chunks EXCEPT ![chunk + 1] = @ \cup {bit}]

\* Bitmap_set_zero masking with the shifted 1 itself instead of its inverse.
Bitmap_set_zero_uninverted(chunks, chunk, bit) ==
    [chunks EXCEPT ![chunk + 1] = @ \cap {bit}]

Bitmap_set_zero(chunks, chunk, bit) ==
    [chunks EXCEPT ![chunk + 1] = @ \cap (Word \ {bit})]

Bitmap_set(self, position, value) ==
    IF position >= self.size
    THEN [chunks |-> self.chunks, size |-> self.size, fault |-> "out_of_bounds"]
    ELSE LET at == bit_index(position, WordBits)
         IN  [chunks |-> IF value
                         THEN Bitmap_set_one(self.chunks, at.chunk_index, at.bit_index_in_chunk)
                         ELSE Bitmap_set_zero(self.chunks, at.chunk_index, at.bit_index_in_chunk),
              size |-> self.size,
              fault |-> "none"]

RECURSIVE BitmapFromLoop(_, _, _)
BitmapFromLoop(value, index, bitmap) ==
    IF index >= Len(value) \/ bitmap.fault # "none" THEN bitmap
    ELSE LET char == CharAt(value, index)
         IN  IF char = "1"
             THEN BitmapFromLoop(value, index + 1, Bitmap_set(bitmap, index, TRUE))
             ELSE IF char = "0"
             THEN BitmapFromLoop(value, index + 1, Bitmap_set(bitmap, index, FALSE))
             ELSE [bitmap EXCEPT !.fault = "parse"]

\* impl From<&str> for Bitmap
Bitmap_from(value) ==
    BitmapFromLoop(value, 0,
        [chunks |-> Bitmap_new(StrLen(value)).chunks, size |-> StrLen(value), fault |-> "none"])

\* The words of a Bitmap operator's result; self.chunks[id] and rhs.chunks[id]
\* panic when an operand has fewer words than the result.
WordAnd(w, v) == w \cap v
WordOr(w, v) == w \cup v
WordXor(w, v) == (w \ v) \cup (v \ w)
WordNot(w) == Word \ w

ShortOperand(self, rhs) ==
    LET n == chunks_count(Min(self.size, rhs.size), WordBits)
    IN  n > Len(self.chunks) \/ n > Len(rhs.chunks)

IndexPanic(self, rhs) ==
    [chunks |-> Bitmap_chunks_with_size(Min(self.size, rhs.size)),
     size |-> Min(self.size, rhs.size), fault |-> "index"]

\* Bitmap_bitand computing the word-wise OR.
Bitmap_bitand_as_or(self, rhs) ==
    IF ShortOperand(self, rhs) THEN IndexPanic(self, rhs)
    ELSE [chunks |-> [id \in 1..chunks_count(Min(self.size, rhs.size), WordBits) |->
                         WordOr(self.chunks[id], rhs.chunks[id])],
          size |-> Min(self.size, rhs.size), fault |-> "none"]

Bitmap_bitand(self, rhs) ==
    IF ShortOperand(self, rhs) THEN IndexPanic(self, rhs)
    ELSE [chunks |-> [id \in 1..chunks_count(Min(self.size, rhs.size), WordBits) |->
                         WordAnd(self.chunks[id], rhs.chunks[id])],
          size |-> Min(self.size, rhs.size), fault |-> "none"]

Bitmap_bitor(self, rhs) ==
    IF ShortOperand(self, rhs) THEN IndexPanic(self, rhs)
    ELSE [chunks |-> [id \in 1..chunks_count(Min(self.size, rhs.size), WordBits) |->
                         WordOr(self.chunks[id], rhs.chunks[id])],
          size |-> Min(self.size, rhs.size), fault |-> "none"]

\* Bitmap_bitxor sized by the larger operand.
Bitmap_bitxor_max_size(self, rhs) ==
    LET sz == Max(self.size, rhs.size)
        n == chunks_count(sz, WordBits)
    IN  IF n > Len(self.chunks) \/ n > Len(rhs.chunks)
        THEN [chunks |-> Bitmap_chunks_with_size(sz), size |-> sz, fault |-> "index"]
        ELSE [chunks |-> [id \in 1..n |-> WordXor(self.chunks[id], rhs.chunks[id])],
              size |-> sz, fault |-> "none"]

Bitmap_bitxor(self, rhs) ==
    IF ShortOperand(self, rhs) THEN IndexPanic(self, rhs)
    ELSE [chunks |-> [id \in 1..chunks_count(Min(self.size, rhs.size), WordBits) |->
                         WordXor(self.chunks[id], rhs.chunks[id])],
          size |-> Min(self.size, rhs.size), fault |-> "none"]

Bitmap_not(self) ==
    [chunks |-> [id \in 1..Len(self.chunks) |-> WordNot(self.chunks[id])],
     size |-> self.size, fault |-> "none"]

\* ------------------------------------------------- set calls on one bitmap

InitSet ==
    /\ \/ \E sz \in 0..MaxSize :
             /\ size = SparseBitmap_new(sz).size
             /\ runs = SparseBitmap_new(sz).runs
       \/ \E s \in BitStrings(MaxSize) :
             /\ size = SparseBitmap_from(s).size
             /\ runs = SparseBitmap_from(s).runs
    /\ fault = "none"
    /\ call = <<>>
    /\ before = <<>>
    /\ steps = 0

IdleOps ==
    /\ a = <<>>
    /\ b = <<>>
    /\ op = "idle"
    /\ out = <<>>

IdleDense ==
    /\ dx = <<>>
    /\ dy = <<>>
    /\ res = <<>>
    /\ dop = "idle"
    /\ dfault = "none"
    /\ shadow = {}
    /\ clean = {}
    /\ dsteps = 0

\* bitmap.set(position, value); position = size is the out-of-range call.
Set(position, value) ==
    /\ fault = "none"
    /\ steps < MaxSets
    /\ LET r == SparseBitmap_set([runs |-> runs, size |-> size], position, value)
       IN  /\ runs' = r.runs
           /\ fault' = r.fault
    /\ call' = [position |-> position, value |-> value]
    /\ before' = runs
    /\ steps' = steps + 1
    /\ UNCHANGED <<size, a, b, op, out, denseVars>>

SetTrue == \E position \in 0..size : Set(position, TRUE)
SetFalse == \E position \in 0..size : Set(position, FALSE)

\* &bitmap ^ &bitmap on the bitmap the set calls have built, in a build with or
\* without overflow checks. Set calls leave runs out of ascending order, which
\* is what takes bitxor to new_end < new_start.
SelfXor ==
    /\ fault = "none"
    /\ op = "idle"
    /\ \E overflow_checks \in BOOLEAN :
          out' = [overflow_checks |-> overflow_checks,
                  result |-> SparseBitmap_bitxor([runs |-> runs, size |-> size],
                                                 [runs |-> runs, size |-> size],
                                                 overflow_checks)]
    /\ op' = "self_xor"
    /\ UNCHANGED <<a, b, setVars, denseVars>>

IdleSet ==
    /\ size = 0
    /\ runs = <<>>
    /\ fault = "none"
    /\ call = <<>>
    /\ before = <<>>
    /\ steps = 0

Init == InitSet /\ IdleOps /\ IdleDense

Next == SetTrue \/ SetFalse \/ SelfXor

Spec == Init /\ [][Next]_vars

\* ----------------------------------------------------- operator scenarios

InitOps ==
    /\ a \in BitStrings(MaxLen)
    /\ b \in BitStrings(MaxLen)
    /\ op = "init"
    /\ out = <<>>
    /\ IdleSet
    /\ IdleDense

\* &SparseBitmap::from(a) & &SparseBitmap::from(b)
And ==
    /\ op = "init"
    /\ op' = "and"
    /\ out' = SparseBitmap_bitand(SparseBitmap_from(a), SparseBitmap_from(b))
    /\ UNCHANGED <<a, b, setVars, denseVars>>

\* &SparseBitmap::from(a) | &SparseBitmap::from(b)
Or ==
    /\ op = "init"
    /\ op' = "or"
    /\ out' = SparseBitmap_bitor(SparseBitmap_from(a), SparseBitmap_from(b))
    /\ UNCHANGED <<a, b, setVars, denseVars>>

\* &SparseBitmap::from(a) ^ &SparseBitmap::from(b)
Xor ==
    /\ op = "init"
    /\ op' = "xor"
    /\ \E overflow_checks \in BOOLEAN :
          out' = SparseBitmap_bitxor(SparseBitmap_from(a), SparseBitmap_from(b),
                                     overflow_checks)
    /\ UNCHANGED <<a, b, setVars, denseVars>>

\* !&SparseBitmap::from(a)
Not ==
    /\ op = "init"
    /\ op' = "not"
    /\ out' = SparseBitmap_not(SparseBitmap_from(a))
    /\ UNCHANGED <<a, b, setVars, denseVars>>

\* A set call on a bitmap value, keeping the panic of an earlier step.
SetOn(bitmap, position, value) ==
    IF bitmap.fault # "none" THEN bitmap
    ELSE LET r == SparseBitmap_set(bitmap, position, value)
         IN  [runs |-> r.runs, size |-> bitmap.size, fault |-> r.fault]

\* to_string of a bitmap value, keeping the panic of an earlier step.
RenderOf(bitmap) ==
    IF bitmap.fault # "none" THEN [text |-> <<>>, fault |-> bitmap.fault]
    ELSE SparseBitmap_to_string(bitmap)

\* from(s); set(position, true); to_string(); set(position, false); to_string()
SetThenClear(s, position) ==
    LET set1 == SetOn(SparseBitmap_from(s), position, TRUE)
        first == RenderOf(set1)
        set2 == IF first.fault # "none" THEN [set1 EXCEPT !.fault = first.fault]
                ELSE SetOn(set1, position, FALSE)
        second == RenderOf(set2)
    IN  [position |-> position, first |-> first.text, second |-> second.text,
         fault |-> second.fault]

SetClear ==
    /\ op = "init"
    /\ \E position \in 0..(Len(a) - 1) :
          /\ ~BitOf(a, position)
          /\ out' = SetThenClear(a, position)
    /\ op' = "set_clear"
    /\ UNCHANGED <<a, b, setVars, denseVars>>

NextOps == And \/ Or \/ Xor \/ Not \/ SetClear

SpecOps == InitOps /\ [][NextOps]_vars

\* -------------------------------------------------------- parser scenarios

Alphabet == Ascii \cup {NonAscii}

InitParse ==
    /\ a \in StringsOver(Alphabet, MaxStr)
    /\ b = <<>>
    /\ op = "init"
    /\ out = <<>>
    /\ IdleSet
    /\ IdleDense

\* SparseBitmap::from(a)
ParseSparse ==
    /\ op = "init"
    /\ op' = "parse_sparse"
    /\ out' = SparseBitmap_from(a)
    /\ UNCHANGED <<a, b, setVars, denseVars>>

\* Bitmap::from(a)
ParseDense ==
    /\ op = "init"
    /\ op' = "parse_dense"
    /\ out' = Bitmap_from(a)
    /\ UNCHANGED <<a, b, setVars, denseVars>>

\* SparseBitmap::from(a).to_string()
RoundTrip ==
    /\ op = "init"
    /\ op' = "round_trip"
    /\ out' = [bitmap |-> SparseBitmap_from(a),
               text |-> SparseBitmap_to_string(SparseBitmap_from(a)).text,
               fault |-> SparseBitmap_to_string(SparseBitmap_from(a)).fault]
    /\ UNCHANGED <<a, b, setVars, denseVars>>

NextParse == ParseSparse \/ ParseDense \/ RoundTrip

SpecParse == InitParse /\ [][NextParse]_vars

\* ------------------------------------------- set calls on a dense Bitmap

\* The sizes of the dense scenarios: the smallest ones and those around the
\* first word boundary.
DenseSizes == (0..MaxEdge) \cup ((WordBits - 1)..(WordBits + MaxEdge))

\* The positions the dense scenarios touch: bit 0 and those around the first
\* word boundary, up to and including size (the out-of-range call).
Probes(sz) == {p \in 0..sz : p = 0 \/ p >= WordBits - 1}

\* A Bitmap value without the panic field.
AsBitmap(r) == [chunks |-> r.chunks, size |-> r.size]

InitDense ==
    /\ \/ \E sz \in DenseSizes :
             /\ dx = Bitmap_new(sz)
             /\ shadow = {}
       \/ \E s \in BitStrings(MaxDenseLen) :
             /\ dx = AsBitmap(Bitmap_from(s))
             /\ shadow = {p \in 0..(Len(s) - 1) : BitOf(s, p)}
    /\ dy = <<>>
    /\ res = <<>>
    /\ dop = "init"
    /\ dfault = "none"
    /\ clean = {}
    /\ dsteps = 0
    /\ IdleSet
    /\ IdleOps

\* dx.set(position, value); shadow follows the reference bit array.
DenseSet(position, value) ==
    /\ dfault = "none"
    /\ dsteps < MaxDenseSets
    /\ LET r == Bitmap_set(dx, position, value)
       IN  /\ dx' = AsBitmap(r)
           /\ dfault' = r.fault
           /\ shadow' = IF r.fault # "none" THEN shadow
                        ELSE IF value THEN shadow \cup {position}
                        ELSE shadow \ {position}
    /\ dop' = [position |-> position, value |-> value]
    /\ dsteps' = dsteps + 1
    /\ UNCHANGED <<dy, res, clean, a, b, op, out, setVars>>

DenseSetTrue == \E position \in Probes(dx.size) : DenseSet(position, TRUE)
DenseSetFalse == \E position \in Probes(dx.size) : DenseSet(position, FALSE)

NextDense == DenseSetTrue \/ DenseSetFalse

SpecDense == InitDense /\ [][NextDense]_vars

\* ------------------------------------------------- dense operator scenarios

\* Bitmap::from of the string of length sz whose 1 bits are the positions in
\* ones: new(sz) followed by a set call per position.
RECURSIVE DenseWith(_, _)
DenseWith(sz, ones) ==
    IF ones = {} THEN Bitmap_new(sz)
    ELSE LET p == CHOOSE q \in ones : \A r \in ones : q >= r
         IN  AsBitmap(Bitmap_set(DenseWith(sz, ones \ {p}), p, TRUE))

DenseOperands ==
    UNION {{DenseWith(sz, ones) : ones \in SUBSET (Probes(sz) \ {sz})} : sz \in DenseSizes}

InitDenseOps ==
    /\ dx \in DenseOperands
    /\ dy \in DenseOperands
    /\ res = <<>>
    /\ dop = "init"
    /\ dfault = "none"
    /\ shadow = {}
    /\ clean = {"dx", "dy"}
    /\ dsteps = 0
    /\ IdleSet
    /\ IdleOps

CanStep == dfault = "none" /\ dsteps < MaxDenseOps

\* dx.set(position, value) with position < size
OpsSet ==
    /\ CanStep
    /\ \E position \in Probes(dx.size) \ {dx.size} : \E value \in BOOLEAN :
          dx' = AsBitmap(Bitmap_set(dx, position, value))
    /\ dop' = "set"
    /\ dsteps' = dsteps + 1
    /\ UNCHANGED <<dy, res, dfault, shadow, clean, a, b, op, out, setVars>>

\* The bookkeeping of a binary operator that returned r.
Returns(r, name, keeps) ==
    /\ res' = AsBitmap(r)
    /\ dfault' = r.fault
    /\ dop' = name
    /\ clean' = IF keeps /\ {"dx", "dy"} \subseteq clean
                THEN clean \cup {"res"} ELSE clean \ {"res"}
    /\ dsteps' = dsteps + 1
    /\ UNCHANGED <<dx, dy, shadow, a, b, op, out, setVars>>

\* &dx & &dy
DenseAnd == CanStep /\ Returns(Bitmap_bitand(dx, dy), "and", TRUE)

\* &dx | &dy
DenseOr == CanStep /\ Returns(Bitmap_bitor(dx, dy), "or", dx.size = dy.size)

\* &dx ^ &dy
DenseXor == CanStep /\ Returns(Bitmap_bitxor(dx, dy), "xor", dx.size = dy.size)

\* !&dx
DenseNot == CanStep /\ Returns(Bitmap_not(dx), "not", FALSE)

\* The result of the last operator becomes the left operand of the next.
Feed ==
    /\ CanStep
    /\ res # <<>>
    /\ dx' = res
    /\ clean' = IF "res" \in clean THEN clean \cup {"dx"} ELSE clean \ {"dx"}
    /\ dop' = "feed"
    /\ UNCHANGED <<dy, res, dfault, shadow, dsteps, a, b, op, out, setVars>>

NextDenseOps == OpsSet \/ DenseAnd \/ DenseOr \/ DenseXor \/ DenseNot \/ Feed

SpecDenseOps == InitDenseOps /\ [][NextDenseOps]_vars

\* ------------------------------------------------------------------ claims

\* The bitmap under set calls, as a value.
Current == [runs |-> runs, size |-> size]
Before == [runs |-> before, size |-> size]
Returned == call # <<>> /\ fault = "none"
InRange(s) == 0..(Len(s) - 1)

\* C1: immediately after set(p, v) with p < size returns, get(p) = v.
C1_SetThenGet ==
    Returned => SparseBitmap_get(Current, call.position) = call.value

\* C2: set(p, v) with p < size leaves get(q) unchanged for every q < size, q # p.
C2_SetFrame ==
    Returned =>
        \A q \in 0..(size - 1) :
            q # call.position =>
                SparseBitmap_get(Current, q) = SparseBitmap_get(Before, q)

\* C3: a set call with position < size completes without a fault.
C3_SetInRangeNeverFaults ==
    (call # <<>> /\ call.position < size) => fault = "none"

\* s with bit p changed to 1.
WithBitSet(s, p) == [s EXCEPT ![Len(s) - p] = "1"]

\* C4: from(s), set(p, true) on a 0 bit renders s with bit p set, and a following
\* set(p, false) renders s again.
C4_SetClearRoundTrip ==
    op = "set_clear" =>
        /\ out.fault = "none"
        /\ out.first = WithBitSet(a, out.position)
        /\ out.second = a

\* C5: for operands of equal length, XOR completes and bit p of the result is
\* (bit p of a) XOR (bit p of b) for every p < n.
C5_XorIsSymmetricDifference ==
    (op = "xor" /\ Len(a) = Len(b)) =>
        /\ out.fault = "none"
        /\ \A p \in InRange(a) : SparseBitmap_get(out, p) = (BitOf(a, p) # BitOf(b, p))

\* C6: NOT keeps the size and bit p of the result is the negation of bit p of
\* the operand for every p < n.
C6_NotIsComplement ==
    op = "not" =>
        /\ out.size = Len(a)
        /\ \A p \in InRange(a) : SparseBitmap_get(out, p) = ~BitOf(a, p)

\* C7: bit p of the AND of two operands is (bit p of a) AND (bit p of b) for
\* every p < min(len(a), len(b)).
C7_AndIsConjunction ==
    op = "and" =>
        /\ out.fault = "none"
        /\ \A p \in 0..(Min(Len(a), Len(b)) - 1) :
              SparseBitmap_get(out, p) = (BitOf(a, p) /\ BitOf(b, p))

\* AND of operands of different lengths where the single run of a overlaps two
\* runs of b and touches a third end-to-start (a zero-length intersection).
C7_Witness ==
    /\ op = "and"
    /\ Len(a) # Len(b)
    /\ Len(SparseBitmap_from(a).runs) = 1
    /\ Cardinality({i \in 1..Len(out.runs) : out.runs[i].length > 0}) >= 2
    /\ \E i \in 1..Len(out.runs) : out.runs[i].length = 0

\* C8: bit p of the OR of two operands is (bit p of a) OR (bit p of b) for
\* every p < min(len(a), len(b)).
C8_OrIsDisjunction ==
    op = "or" =>
        /\ out.fault = "none"
        /\ \A p \in 0..(Min(Len(a), Len(b)) - 1) :
              SparseBitmap_get(out, p) = (BitOf(a, p) \/ BitOf(b, p))

\* OR of operands of different lengths whose pairwise walk handed append a run
\* that starts before the run emitted last.
C8_Witness ==
    /\ op = "or"
    /\ Len(a) # Len(b)
    /\ \E i \in 1..Len(out.runs) : \E j \in 1..Len(out.runs) :
          i < j /\ out.runs[i].start > out.runs[j].start

IsBitString(s) == \A i \in 1..Len(s) : s[i] \in {"0", "1"}

\* C9: a string with a character other than '0' and '1' makes both
\* Bitmap::from and SparseBitmap::from end in a parse failure.
C9_MalformedRejected ==
    (op \in {"parse_sparse", "parse_dense"} /\ ~IsBitString(a)) => out.fault = "parse"

\* C10: for every string s over {'0','1'}, SparseBitmap::from(s).to_string() = s,
\* with size = len(s) and the rightmost character mapped to bit 0.
C10_StringRoundTrip ==
    (op = "round_trip" /\ IsBitString(a)) =>
        /\ out.fault = "none"
        /\ out.text = a
        /\ out.bitmap.size = Len(a)
        /\ \A p \in InRange(a) : SparseBitmap_get(out.bitmap, p) = BitOf(a, p)

\* A round trip of a bit string with two runs of different lengths.
C10_Witness ==
    /\ op = "round_trip"
    /\ a = <<"1", "0", "1", "1">>
    /\ out.bitmap.runs = <<Run_new(0, 2), Run_new(3, 1)>>
    /\ out.text = a

\* C14: XOR of a bitmap with itself is the all-zero bitmap of the same size:
\* an empty run list, equal to SparseBitmap::from of the all-zero string.
C14_SelfXorIsEmpty ==
    (op = "xor" /\ a = b) =>
        /\ out.fault = "none"
        /\ out.size = Len(a)
        /\ out.runs = <<>>
        /\ out = SparseBitmap_from(Repeat("0", Len(a)))

\* A self-XOR of a string with three runs.
C14_Witness ==
    /\ op = "xor"
    /\ a = b
    /\ Len(SparseBitmap_from(a).runs) = 3
    /\ out.runs = <<>>

\* Every run has length > 0 and the runs are pairwise disjoint, non-adjacent
\* and in ascending start order.
WellFormedRuns(rs) ==
    /\ \A i \in 1..Len(rs) : rs[i].length > 0
    /\ \A i \in 1..Len(rs) : \A j \in 1..Len(rs) :
          i < j => Run_end(rs[i]) < rs[j].start

\* C15: in every state reached by in-range set calls the run list is well
\* formed (positive lengths, disjoint, non-adjacent, ascending).
C15_RunListInvariant ==
    fault = "none" => WellFormedRuns(runs)

\* C16: in every state reached by in-range set calls no run extends past
\* size, so get(size) is false.
C16_NoRunPastSize ==
    fault = "none" =>
        /\ \A i \in 1..Len(runs) : runs[i].start + runs[i].length <= size
        /\ ~SparseBitmap_get(Current, size)

\* C17: for operands of equal length the result of AND, OR, XOR and NOT has a
\* well-formed run list and equals SparseBitmap::from of the string it renders to.
C17_OperatorsWellFormed ==
    (op \in {"and", "or", "xor", "not"} /\ Len(a) = Len(b)) =>
        /\ out.fault = "none"
        /\ WellFormedRuns(out.runs)
        /\ SparseBitmap_to_string(out).fault = "none"
        /\ out = SparseBitmap_from(SparseBitmap_to_string(out).text)

\* C11: after any sequence of in-range set calls on a Bitmap from new(size) or
\* from(s), get(q) for every q < size is the value most recently set at q, or
\* the initial bit of q (the reference bit array shadow).
C11_DenseFollowsReference ==
    dfault = "none" =>
        \A q \in 0..(dx.size - 1) : Bitmap_get(dx, q) = (q \in shadow)

\* A two-word Bitmap after set(63, true), set(64, true), set(63, false): the
\* bits on the two sides of the word boundary were written and one was cleared.
C11_Witness ==
    /\ dsteps = 3
    /\ dfault = "none"
    /\ dx.size = WordBits + 1
    /\ dop = [position |-> WordBits - 1, value |-> FALSE]
    /\ shadow = {WordBits}
    /\ Bitmap_get(dx, WordBits)

\* C12: dense AND, OR and XOR complete without an indexing fault and return a
\* Bitmap of size min(a.size, b.size) whose bit p is the AND, OR, XOR of the
\* operands' bits for every p below that size.
C12_DenseOperatorsBitwise ==
    dop \in {"and", "or", "xor"} =>
        /\ dfault = "none"
        /\ res.size = Min(dx.size, dy.size)
        /\ \A p \in 0..(res.size - 1) :
              Bitmap_get(res, p) =
                  CASE dop = "and" -> Bitmap_get(dx, p) /\ Bitmap_get(dy, p)
                    [] dop = "or" -> Bitmap_get(dx, p) \/ Bitmap_get(dy, p)
                    [] dop = "xor" -> Bitmap_get(dx, p) # Bitmap_get(dy, p)

\* XOR of a two-word Bitmap with a one-word Bitmap of a smaller size, with a 1
\* in the result.
C12_Witness ==
    /\ dop = "xor"
    /\ Len(dx.chunks) = 2
    /\ Len(dy.chunks) = 1
    /\ Len(res.chunks) = 1
    /\ Bitmap_get(dx, WordBits)
    /\ \E p \in 0..(res.size - 1) : Bitmap_get(res, p)

\* The bits of the allocated words at positions >= size are 0.
PaddingZero(bitmap) ==
    \A p \in bitmap.size..(Len(bitmap.chunks) * WordBits - 1) : ~Bitmap_get(bitmap, p)

\* C13 as stated: every Bitmap reachable through set, AND, OR, XOR and NOT has
\* zero padding.
C13_PaddingAlwaysZero ==
    /\ PaddingZero(dx)
    /\ PaddingZero(dy)
    /\ res # <<>> => PaddingZero(res)

\* C13 as amended: every Bitmap reachable from new(size) or from(s) through
\* set, AND, and OR/XOR of operands of equal size has zero padding.
C13_PaddingZeroWithoutNot ==
    /\ "dx" \in clean => PaddingZero(dx)
    /\ "dy" \in clean => PaddingZero(dy)
    /\ "res" \in clean => PaddingZero(res)

\* An AND whose right operand has a 1 at a position that is padding in the
\* smaller left operand, and in the result.
C13_Witness ==
    /\ dop = "and"
    /\ "res" \in clean
    /\ dx.size < dy.size
    /\ \E p \in dx.size..(Len(dx.chunks) * WordBits - 1) : Bitmap_get(dy, p)
    /\ PaddingZero(res)

====
